---- MODULE Spec2Model ----
(***************************************************************************)
(* A model of peer/entity/forms.py: the entity forms (EntityForm,          *)
(* EditEntityForm), the metadata edit forms (text, file, remote URL) and   *)
(* the remote fetch of MetadataRemoteEditForm.                             *)
(*                                                                         *)
(* Text is a sequence of one-character strings.  A Python None is the      *)
(* sequence None, which is no text.                                        *)
(***************************************************************************)
EXTENDS Naturals, Sequences, FiniteSets, Bags, TLC

VARIABLES
    entities,   \* the Entity table: a bag of <<name, domain>> rows
    lastForm,   \* the entity form submitted last and what became of it
    history,    \* the revisions of one entity's metadata, oldest first
    forms,      \* the metadata forms being handled, one per request slot
    attempts,   \* the urlopen calls of one remote fetch: <<url, outcome>>
    fetched     \* what that fetch ended with

vars == <<entities, lastForm, history, forms, attempts, fetched>>

(***************************************************************************)
(* Bounds.                                                                 *)
(***************************************************************************)
MaxLen == 2          \* longest metadata text
MaxEntities == 2     \* rows of the Entity table
MaxRevisions == 3    \* revisions kept in the history
NumForms == 2        \* metadata forms handled at the same time

(***************************************************************************)
(* Text.                                                                   *)
(***************************************************************************)
None == <<"None">>

RECURSIVE StringsOver(_, _)
StringsOver(alphabet, n) ==
    IF n = 0 THEN {<<>>}
    ELSE LET shorter == StringsOver(alphabet, n - 1)
         IN  shorter \cup {Append(s, c) : s \in shorter, c \in alphabet}

Whitespace == {" "}

RECURSIVE lstrip(_)
lstrip(s) ==
    IF s # <<>> /\ Head(s) \in Whitespace THEN lstrip(Tail(s)) ELSE s

RECURSIVE rstrip(_)
rstrip(s) ==
    IF s # <<>> /\ s[Len(s)] \in Whitespace
    THEN rstrip(SubSeq(s, 1, Len(s) - 1))
    ELSE s

\* str.strip(): the text without its leading and trailing whitespace.
strip(s) == rstrip(lstrip(s))

Contents == StringsOver({"a", " "}, MaxLen)

(***************************************************************************)
(* The remote fetch (MetadataRemoteEditForm._field_value_to_metadata).     *)
(*                                                                         *)
(* A response body is a sequence of bytes: "a" and " " are ASCII, "xE9" is *)
(* the byte 0xE9, which is no UTF-8 text on its own and is the character   *)
(* "U+00E9" in latin-1.  A content-type header is a sequence of tokens, of *)
(* which "charset=" is the one the code splits at.                         *)
(***************************************************************************)
Bodies == StringsOver({"a", " ", "xE9"}, 1)

NoHeader == <<"NoHeader">>

ContentTypes ==
    { NoHeader,
      <<"text/xml">>,
      <<"text/xml; ", "charset=", "utf-8">>,
      <<"text/xml; ", "charset=", "latin-1">>,
      <<"text/xml; ", "charset=", "bogus">> }

Urls == { <<"example.org/md">>, <<"http://", "example.org/md">> }

\* What one urlopen call can do: raise URLError, HTTPError or anything else,
\* or give a response (whose read() may itself raise).
ErrorOutcomes ==
    [kind : {"URLError", "HTTPError", "OtherError"}, code : {0},
     body : {<<>>}, ctype : {NoHeader}, readable : {TRUE}]

ResponseOutcomes ==
    [kind : {"response"}, code : {200, 204},
     body : Bodies, ctype : ContentTypes, readable : BOOLEAN]

Outcomes == ErrorOutcomes \cup ResponseOutcomes

Text(t) == [kind |-> "text", val |-> t]
ValidationError(msg) == [kind |-> "ValidationError", val |-> <<msg>>]
Raised(exc) == [kind |-> "raised", val |-> <<exc>>]
ReturnedNone == [kind |-> "None", val |-> None]

\* str.split(sep): the segments between the occurrences of sep.
RECURSIVE split(_, _)
split(s, sep) ==
    IF s = <<>> THEN << <<>> >>
    ELSE LET rest == split(Tail(s), sep)
         IN  IF Head(s) = sep
             THEN << <<>> >> \o rest
             ELSE << <<Head(s)>> \o Head(rest) >> \o Tail(rest)

\* str.decode(encoding): the text of the bytes, or the exception raised.
decode(bytes, encoding) ==
    IF encoding = <<"utf-8">>
    THEN IF \E i \in 1..Len(bytes) : bytes[i] = "xE9"
         THEN Raised("UnicodeDecodeError")
         ELSE Text(bytes)
    ELSE IF encoding = <<"latin-1">>
    THEN Text([i \in 1..Len(bytes) |->
                  IF bytes[i] = "xE9" THEN "U+00E9" ELSE bytes[i]])
    ELSE Raised("LookupError")

\* The try block of lines 272-276: the charset named in the content-type
\* header decodes the text; KeyError and IndexError are passed over.
decode_response(text, ctype) ==
    IF ctype = NoHeader THEN Text(text)                      \* KeyError
    ELSE LET parts == split(ctype, "charset=")
         IN  IF Len(parts) < 2 THEN Text(text)               \* IndexError
             ELSE decode(text, parts[2])

\* _fetch_metadata as it would be with the bare except clause first: every
\* error of urlopen gives None.
fetch_metadata_swallow(o) ==
    IF o.kind \in {"URLError", "HTTPError", "OtherError"} THEN ReturnedNone
    ELSE IF o.code # 200 THEN ValidationError("Error in the response")
    ELSE IF ~o.readable THEN Raised("socket.error")
    ELSE decode_response(o.body, o.ctype)

\* _fetch_metadata(url), given what urlopen(url) does.  HTTPError is a
\* URLError, so the first except clause takes both.
fetch_metadata(o) ==
    IF o.kind \in {"URLError", "HTTPError"} THEN ValidationError("URL Error")
    ELSE IF o.kind = "OtherError" THEN ReturnedNone
    ELSE IF o.code # 200 THEN ValidationError("Error in the response")
    ELSE IF ~o.readable THEN Raised("socket.error")
    ELSE decode_response(o.body, o.ctype)

\* The urlopen calls the fetch of remote_url makes, o1 and o2 being what the
\* first and the second call do.
urlopen_calls(remote_url, o1, o2) ==
    IF fetch_metadata(o1) = ReturnedNone
    THEN << [url |-> remote_url, outcome |-> o1],
            [url |-> <<"http://">> \o remote_url, outcome |-> o2] >>
    ELSE << [url |-> remote_url, outcome |-> o1] >>

\* MetadataRemoteEditForm._field_value_to_metadata(remote_url).
remote_field_value_to_metadata(o1, o2) ==
    LET data == fetch_metadata(o1)
    IN  IF data = ReturnedNone
        THEN LET again == fetch_metadata(o2)
             IN  IF again = ReturnedNone
                 THEN ValidationError("Unknown error while fetching the url")
                 ELSE again
        ELSE data

Idle == [kind |-> "idle", val |-> None]

RemoteFetch ==
    /\ attempts = <<>>
    /\ \E remote_url \in Urls, o1 \in Outcomes, o2 \in Outcomes :
          /\ attempts' = urlopen_calls(remote_url, o1, o2)
          /\ fetched' = remote_field_value_to_metadata(o1, o2)
    /\ UNCHANGED <<entities, lastForm, history, forms>>

(***************************************************************************)
(* The entity forms (EntityForm, EditEntityForm).                          *)
(***************************************************************************)
Users == {"alice", "bob"}

Domains == {"d1", "d2", "d3", "d4"}

NoDomain == "None"

\* The Domain table: who owns each domain, who is on its team, and whether
\* its ownership was validated.
DomainTable ==
    [d \in Domains |->
        CASE d = "d1" -> [owner |-> "alice", team |-> {}, validated |-> TRUE]
          [] d = "d2" -> [owner |-> "bob", team |-> {"alice"}, validated |-> TRUE]
          [] d = "d3" -> [owner |-> "bob", team |-> {}, validated |-> TRUE]
          [] d = "d4" -> [owner |-> "alice", team |-> {"bob"}, validated |-> FALSE]]

NameChars == {"a", "b", "!", ":", "&", "\\", "|"}

\* The names submitted: no name, the one-character names, and each of the
\* reserved characters after and before a letter.
Names ==
    StringsOver(NameChars, 1)
        \cup {<<"a", c>> : c \in NameChars \ {"a", "b"}}
        \cup {<<c, "a">> : c \in NameChars \ {"a", "b"}}

\* The reserved characters as a non-raw '!:&|' would give them.
IllegalChars_no_backslash == {"!", ":", "&", "|"}

\* for ch in r'!:&\|'
IllegalChars == {"!", ":", "&", "\\", "|"}

has_illegal_char(name) == \E i \in 1..Len(name) : name[i] \in IllegalChars

\* domain.team.all() as it would be were the team not filtered by domain.
team_all_everyone(d) == Users

\* domain.team.all()
team_all(d) == DomainTable[d].team

\* The domains the form's field offers: those of the user, validated.
domain_queryset(user) ==
    {d \in Domains :
        \/ DomainTable[d].owner = user /\ DomainTable[d].validated
        \/ user \in team_all(d) /\ DomainTable[d].validated}

Field(value, errors) == [value |-> value, errors |-> errors]

\* The name field's own cleaning: a name is required.
name_field_clean(name) ==
    IF name = <<>> THEN Field(None, {"This field is required."})
    ELSE Field(name, {})

\* The domain field's own cleaning: a domain is required, and it is one of
\* the field's queryset.
domain_field_clean(user, domain) ==
    IF domain = NoDomain THEN Field(NoDomain, {"This field is required."})
    ELSE IF domain \notin domain_queryset(user)
    THEN Field(NoDomain, {"Select a valid choice."})
    ELSE Field(domain, {})

\* EntityForm.clean_domain, domain being cleaned_data.get('domain').
clean_domain(user, domain) ==
    IF domain # NoDomain /\ DomainTable[domain].owner # user
                         /\ user \notin team_all(domain)
    THEN Field(NoDomain, {"You cannot use this domain"})
    ELSE Field(domain, {})

Row(name, domain) == [name |-> name, domain |-> domain]

\* Entity.objects.get(name=name, domain=domain) finds a row.
entity_exists(name, domain) == BagIn(Row(name, domain), entities)

\* EntityForm.clean: the errors it raises, name and domain being what
\* cleaned_data holds (None or NoDomain when the field failed).
EntityForm_clean(name, domain) ==
    IF name # None /\ name # <<>> /\ domain # NoDomain
    THEN IF has_illegal_char(name)
         THEN {"Illegal characters in the name"}
         ELSE IF entity_exists(name, domain)
         THEN {"There is already an entity with that name for that domain"}
         ELSE {}
    ELSE {}

\* EditEntityForm.clean.
EditEntityForm_clean(name) ==
    IF name # None /\ name # <<>> /\ has_illegal_char(name)
    THEN {"Illegal characters in the name"}
    ELSE {}

\* All the errors of an EntityForm bound to (name, domain) for user.
EntityForm_errors(user, name, domain) ==
    LET n == name_field_clean(name)
        f == domain_field_clean(user, domain)
        d == IF f.errors = {} THEN clean_domain(user, f.value) ELSE f
    IN  n.errors \cup d.errors \cup EntityForm_clean(n.value, d.value)

\* All the errors of an EditEntityForm bound to name.
EditEntityForm_errors(name) ==
    LET n == name_field_clean(name)
    IN  n.errors \cup EditEntityForm_clean(n.value)

NoForm ==
    [form |-> "none", user |-> "none", name |-> None, domain |-> NoDomain,
     valid |-> FALSE, errors |-> {}]

\* A user submits an EntityForm; a valid form is saved as a new entity.
SubmitEntityForm ==
    \E user \in Users, name \in Names, domain \in Domains \cup {NoDomain} :
        LET errors == EntityForm_errors(user, name, domain)
        IN  /\ errors = {} => BagCardinality(entities) < MaxEntities
            /\ lastForm' = [form |-> "EntityForm", user |-> user,
                            name |-> name, domain |-> domain,
                            valid |-> errors = {}, errors |-> errors]
            /\ entities' = IF errors = {}
                           THEN entities (+) SetToBag({Row(name, domain)})
                           ELSE entities
            /\ UNCHANGED <<history, forms, attempts, fetched>>

\* An EditEntityForm is submitted for an entity; a valid form renames it.
SubmitEditEntityForm ==
    \E row \in BagToSet(entities), name \in Names :
        LET errors == EditEntityForm_errors(name)
        IN  /\ lastForm' = [form |-> "EditEntityForm", user |-> "none",
                            name |-> name, domain |-> row.domain,
                            valid |-> errors = {}, errors |-> errors]
            /\ entities' = IF errors = {}
                           THEN (entities (-) SetToBag({row}))
                                    (+) SetToBag({Row(name, row.domain)})
                           ELSE entities
            /\ UNCHANGED <<history, forms, attempts, fetched>>

(***************************************************************************)
(* The metadata forms (BaseMetadataEditForm and its three subclasses), all *)
(* on one entity.  An uploaded file is modelled by its content.            *)
(***************************************************************************)
FormIds == 1..NumForms

FormTypes == {"text", "file", "remote"}

Absent == <<"Absent">>

\* validate(entity, metadata, user): the list of errors it returns.  It
\* checks the XML of the metadata: blank text has errors, and other text has
\* them or not (well_formed).
validate(metadata, well_formed) ==
    IF well_formed /\ strip(metadata) # <<>> THEN <<>>
    ELSE <<"error 1", "error 2">>

\* What urlopen does for the remote form: some of Outcomes, one for each
\* way the fetch can end, with ASCII bodies.
MetaOutcomes ==
    {o \in Outcomes :
        /\ \A i \in 1..Len(o.body) : o.body[i] # "xE9"
        /\ o.ctype \in {NoHeader, <<"text/xml; ", "charset=", "bogus">>}
        /\ (o.code = 204 \/ ~o.readable) => o.body = <<>> /\ o.ctype = NoHeader}

MetaUrls == { <<"example.org/md">> }

\* entity.metadata.get_revision()
get_revision == history[Len(history)]

\* BaseMetadataEditForm.__init__
NewFormObject(type) ==
    [type |-> type, pc |-> "new", metadata |-> None, field |-> Absent,
     others_valid |-> FALSE, errors |-> <<>>, content |-> None,
     validated |-> None]

NoFormObject == [NewFormObject("none") EXCEPT !.pc = "idle"]

\* hasattr(data, 'strip'): text and URLs have it, an uploaded file has not.
has_strip(type) == type # "file"

\* not data: empty text; an uploaded file is true, having a name.
is_false(type, data) == type # "file" /\ data = <<>>

\* self._field_value_to_metadata(data): the base class gives the text back,
\* the file form reads the file, the remote form fetches the URL.
field_value_to_metadata(type, data, o1, o2) ==
    IF type = "remote" THEN remote_field_value_to_metadata(o1, o2)
    ELSE Text(data)

\* check_metadata_is_new(entity, new_metadata) raises.
metadata_is_not_new(new_metadata) == get_revision = new_metadata

\* check_metadata_is_valid: cleaned_data[field] after it, value being what
\* the framework had stored there before it called clean_<field>.
check_metadata_is_valid(value, errors) ==
    IF errors # <<>> THEN Absent ELSE value

Cleaned(kind, val, metadata, validated, field) ==
    [kind |-> kind, val |-> val, metadata |-> metadata,
     validated |-> validated, field |-> field]

\* BaseMetadataEditForm._clean_metadata_field(fieldname) with
\* cleaned_data[fieldname] = value: how it ends (kind: "return", with the
\* value returned, "ValidationError" with its message, or "raised"), the
\* metadata it staged, what the validator returned if it was called, and
\* cleaned_data[fieldname] as it leaves it.
clean_metadata_field(type, value, o1, o2, well_formed) ==
    LET data == IF has_strip(type) THEN strip(value) ELSE value
        empty == Cleaned("ValidationError",
                         <<"Empty metadata is not allowed">>, None, None, value)
    IN  IF is_false(type, data) THEN empty
        ELSE LET m == field_value_to_metadata(type, data, o1, o2)
             IN  IF m.kind # "text"
                 THEN Cleaned(m.kind, m.val, None, None, value)
                 ELSE IF m.val = <<>> THEN empty
                 ELSE IF metadata_is_not_new(m.val)
                 THEN Cleaned("ValidationError",
                              <<"There are no changes in the metadata">>,
                              None, None, value)
                 ELSE LET errors == validate(m.val, well_formed)
                      IN  Cleaned("return", data, m.val, errors,
                                  check_metadata_is_valid(value, errors))

\* The content the form acquired: the text pasted, the file's content, the
\* text fetched (None when the fetch gave none).
acquired(type, value, o1, o2) ==
    IF type = "remote"
    THEN LET m == remote_field_value_to_metadata(o1, o2)
         IN  IF m.kind = "text" THEN m.val ELSE None
    ELSE value

\* The form after the framework cleaned its fields: it stores value as
\* cleaned_data[field], calls clean_<field>, and stores what that returns as
\* cleaned_data[field]; a ValidationError becomes the field's errors and
\* removes cleaned_data[field]; any other exception leaves the framework.
\* The other fields (commit message, terms of use) are cleaned after it.
full_clean(form, value, o1, o2, well_formed, others) ==
    LET c == clean_metadata_field(form.type, value, o1, o2, well_formed)
        content == acquired(form.type, value, o1, o2)
    IN  IF c.kind = "return"
        THEN [form EXCEPT !.pc = "cleaned", !.metadata = c.metadata,
                          !.field = c.val, !.errors = c.validated,
                          !.validated = c.validated, !.content = content,
                          !.others_valid = others]
        ELSE IF c.kind = "ValidationError"
        THEN [form EXCEPT !.pc = "cleaned", !.field = Absent,
                          !.errors = c.val, !.content = content,
                          !.others_valid = others]
        ELSE [form EXCEPT !.pc = "raised", !.field = c.field,
                          !.content = content]

\* form.is_valid()
is_valid(form) ==
    form.pc = "cleaned" /\ form.errors = <<>> /\ form.others_valid

\* A request constructs a metadata form in slot f.
NewForm(f) ==
    /\ forms[f].pc # "new"
    /\ \E type \in FormTypes :
          forms' = [forms EXCEPT ![f] = NewFormObject(type)]
    /\ UNCHANGED <<entities, lastForm, history, attempts, fetched>>

\* The request validates its form with the data submitted.
CleanForm(f) ==
    /\ forms[f].pc = "new"
    /\ \E well_formed \in BOOLEAN, others \in BOOLEAN :
          \/ /\ forms[f].type \in {"text", "file"}
             /\ \E value \in Contents :
                   forms' = [forms EXCEPT ![f] =
                       full_clean(forms[f], value, Idle, Idle,
                                  well_formed, others)]
          \/ /\ forms[f].type = "remote"
             /\ \E url \in MetaUrls, o1 \in MetaOutcomes :
                   \E o2 \in IF fetch_metadata(o1) = ReturnedNone
                             THEN MetaOutcomes ELSE {o1} :
                       forms' = [forms EXCEPT ![f] =
                           full_clean(forms[f], url, o1, o2, well_formed, others)]
    /\ UNCHANGED <<entities, lastForm, history, attempts, fetched>>

\* The request saves its valid form: save() writes the staged metadata as
\* a new revision.
SaveForm(f) ==
    /\ is_valid(forms[f])
    /\ Len(history) < MaxRevisions
    /\ history' = Append(history, forms[f].metadata)
    /\ forms' = [forms EXCEPT ![f].pc = "saved"]
    /\ UNCHANGED <<entities, lastForm, attempts, fetched>>

(***************************************************************************)
(* The specifications: the entity forms, the metadata forms, the fetch.    *)
(* Each starts with an empty Entity table, no form submitted, no form      *)
(* being handled and no fetch made.                                        *)
(***************************************************************************)
InitEntity ==
    /\ entities = EmptyBag
    /\ lastForm = NoForm
    /\ history = <<>>
    /\ forms = [f \in FormIds |-> NoFormObject]
    /\ attempts = <<>>
    /\ fetched = Idle

NextEntity == SubmitEntityForm \/ SubmitEditEntityForm

SpecEntity == InitEntity /\ [][NextEntity]_vars

\* The entity has one revision, written by an earlier save.
InitMeta ==
    /\ entities = EmptyBag
    /\ lastForm = NoForm
    /\ history \in {<<c>> : c \in {t \in Contents : t # <<>> /\ strip(t) = t}}
    /\ forms = [f \in FormIds |-> NoFormObject]
    /\ attempts = <<>>
    /\ fetched = Idle

NextMeta == \E f \in FormIds : NewForm(f) \/ CleanForm(f) \/ SaveForm(f)

SpecMeta == InitMeta /\ [][NextMeta]_vars

InitFetch ==
    /\ entities = EmptyBag
    /\ lastForm = NoForm
    /\ history = <<>>
    /\ forms = [f \in FormIds |-> NoFormObject]
    /\ attempts = <<>>
    /\ fetched = Idle

NextFetch == RemoteFetch

SpecFetch == InitFetch /\ [][NextFetch]_vars

(***************************************************************************)
(* The claims.                                                             *)
(***************************************************************************)
NoChanges == <<"There are no changes in the metadata">>

EmptyMetadata == <<"Empty metadata is not allowed">>

\* C1: whenever a metadata form (text, file or remote) is cleaned with
\* content identical to the entity's current revision, the field fails with
\* the error 'There are no changes in the metadata'.
C1_IdenticalContentIsNoChange ==
    [][\A f \in FormIds :
          (/\ forms[f].pc = "new"
           /\ forms'[f].pc # "new"
           /\ forms'[f].content = get_revision)
              => forms'[f].errors = NoChanges]_vars

\* C2: a metadata form cleaned with acquired content that is empty or only
\* whitespace has failed with the error 'Empty metadata is not allowed'.
C2_BlankContentIsEmpty ==
    \A f \in FormIds :
        (/\ forms[f].pc \in {"cleaned", "raised"}
         /\ forms[f].content # None
         /\ strip(forms[f].content) = <<>>)
            => forms[f].pc = "cleaned" /\ forms[f].errors = EmptyMetadata

\* C3: no two entities have the same (name, domain) pair.
C3_NameUniquePerDomain ==
    \A row \in BagToSet(entities) : CopiesIn(row, entities) = 1

\* C4: every revision written by save() is non-empty and differs from the
\* revision that was current when it was written.
C4_RevisionsNonEmptyAndNew ==
    \A i \in 2..Len(history) :
        history[i] # <<>> /\ history[i] # history[i - 1]

\* C5: when the validator returned errors, they are the field's errors and,
\* the field's cleaning over, cleaned_data holds no value for the field.
C5_InvalidValueDiscarded ==
    \A f \in FormIds :
        (/\ forms[f].pc = "cleaned"
         /\ forms[f].validated # None
         /\ forms[f].validated # <<>>)
            => forms[f].errors = forms[f].validated /\ forms[f].field = Absent

\* C6: a clean stages metadata only if the content is non-empty, differs
\* from the current revision and the validator returned no errors; after a
\* clean that fails one of these checks the staged metadata is still None.
C6_StagedOnlyWhenAllChecksPass ==
    [][\A f \in FormIds :
          (forms[f].pc = "new" /\ forms'[f].pc # "new")
              => /\ forms'[f].metadata # None
                     => /\ forms'[f].metadata # <<>>
                        /\ forms'[f].metadata # get_revision
                        /\ forms'[f].validated = <<>>
                 /\ (forms'[f].pc = "raised" \/ forms'[f].errors # <<>>)
                     => forms'[f].metadata = None]_vars

\* C7: a remote fetch calls urlopen at most twice; it calls it a second time
\* exactly when the first call raised a general error, then with 'http://'
\* before the URL, and a second general error ends the fetch with the
\* 'Unknown error' validation error; a URLError or HTTPError on either call
\* ends the fetch at once with a validation error.
C7_OneSchemeRetry ==
    attempts # <<>> =>
        /\ Len(attempts) <= 2
        /\ Len(attempts) = 2 <=> attempts[1].outcome.kind = "OtherError"
        /\ Len(attempts) = 2 =>
              attempts[2].url = <<"http://">> \o attempts[1].url
        /\ (Len(attempts) = 2 /\ attempts[2].outcome.kind = "OtherError") =>
              fetched = [kind |-> "ValidationError",
                         val |-> <<"Unknown error while fetching the url">>]
        /\ \A i \in 1..Len(attempts) :
              attempts[i].outcome.kind \in {"URLError", "HTTPError"} =>
                  i = Len(attempts) /\ fetched.kind = "ValidationError"

\* A fetch whose two calls both raised a general error.
C7_Witness ==
    /\ Len(attempts) = 2
    /\ attempts[1].url = <<"example.org/md">>
    /\ attempts[2].outcome.kind = "OtherError"
    /\ fetched.kind = "ValidationError"

\* C8: a remote fetch ends with metadata text or with a ValidationError; no
\* other exception leaves it.
C8_FetchEndsInTextOrValidationError ==
    fetched.kind \in {"idle", "text", "ValidationError"}

\* C9: an EntityForm or EditEntityForm whose name holds one of the
\* characters ! : & | \ is invalid, whatever its other fields hold.
C9_ReservedCharactersRejected ==
    (/\ lastForm.form \in {"EntityForm", "EditEntityForm"}
     /\ \E i \in 1..Len(lastForm.name) :
           lastForm.name[i] \in {"!", ":", "&", "|", "\\"})
        => ~lastForm.valid

\* An EntityForm of a domain's owner, rejected for its name alone.
C9_Witness ==
    /\ lastForm.form = "EntityForm"
    /\ lastForm.name = <<"a", "\\">>
    /\ lastForm.domain # NoDomain
    /\ DomainTable[lastForm.domain].owner = lastForm.user
    /\ lastForm.errors = {"Illegal characters in the name"}

\* C10: a valid EntityForm has a domain that its user owns or is on the
\* team of; a form with any other domain is invalid.
C10_DomainOfOwnerOrTeam ==
    (lastForm.form = "EntityForm" /\ lastForm.valid)
        => /\ lastForm.domain # NoDomain
           /\ \/ DomainTable[lastForm.domain].owner = lastForm.user
              \/ lastForm.user \in DomainTable[lastForm.domain].team

\* An EntityForm with a good name and a validated domain that its user
\* neither owns nor shares, rejected.
C10_Witness ==
    /\ lastForm.form = "EntityForm"
    /\ lastForm.name = <<"a">>
    /\ lastForm.domain # NoDomain
    /\ DomainTable[lastForm.domain].validated
    /\ DomainTable[lastForm.domain].owner # lastForm.user
    /\ lastForm.user \notin DomainTable[lastForm.domain].team
    /\ ~lastForm.valid

====
